---- MODULE Spec2Model ----
(***************************************************************************)
(* Overlay reconciler (sync_geojson), hover spatial index and hover        *)
(* interaction controller of the Leaflet map view.                         *)
(*                                                                         *)
(* JavaScript objects whose key order is observable (Object.keys,          *)
(* Object.entries) are modelled as ordered dictionaries: sequences of      *)
(* <<key, value>> pairs in insertion order.  Leaflet layers are modelled   *)
(* by their identity (a positive integer); 0 stands for undefined.         *)
(***************************************************************************)
EXTENDS Integers, Sequences, FiniteSets, TLC

\* ------------------------------------------------------------------ bounds
MaxLayers == 2      \* layer objects that may be alive at once
MaxEntries == 2     \* overlay entries the two input groups hold together
GridReach == 26     \* largest |offset| per axis between candidate and query

\* ------------------------------------------------------- program constants
hoverThresholdPx == 25
\* variant: a grid finer than the snap distance
gridCellSmall == hoverThresholdPx - 1
gridCell == hoverThresholdPx

Undefined == 0
LayerIds == 1..MaxLayers

\* ---------------------------------------------------- ordered dictionaries
Keys(d) == [i \in 1..Len(d) |-> d[i][1]]
KeySet(d) == {d[i][1] : i \in 1..Len(d)}
Has(d, k) == \E i \in 1..Len(d) : d[i][1] = k
Get(d, k) == d[CHOOSE i \in 1..Len(d) : d[i][1] = k][2]
GetOr(d, k, dflt) == IF Has(d, k) THEN Get(d, k) ELSE dflt
Put(d, k, v) ==
    IF Has(d, k)
    THEN [i \in 1..Len(d) |-> IF d[i][1] = k THEN <<k, v>> ELSE d[i]]
    ELSE Append(d, <<k, v>>)
Del(d, k) == SelectSeq(d, LAMBDA e : e[1] # k)

\* ------------------------------------------------ feature collections
\* A GeoJSON feature collection is the sequence of its features.  A feature
\* has a geometry type, a position <<lat, lng>> and an ordered property map.
Pt(lat, lng, props) == [type |-> "Point", ll |-> <<lat, lng>>, properties |-> props]
Poly(props) == [type |-> "Polygon", ll |-> <<0, 0>>, properties |-> props]

\* latitude outside the projection's domain: projects to a non-finite pixel
BadLat == 1000

\* "properties": null, a value that is no property map
NullProperties == << <<>> >>

FcNear == << Pt(0, 0, << <<"id", "1">>, <<"name", "p0">> >>),
             Pt(0, 20, << <<"value", "7">> >>) >>
FcMixed == << Pt(0, -10, << <<"name", "">>, <<"kind", "well">> >>), Poly(<<>>),
              Pt(BadLat, 0, <<>>), Pt(30, 30, NullProperties) >>
Contents == {FcNear, FcMixed}
Names == {"A", "B"}

\* ---------------------------------------------------------------- viewport
Zooms == {1, 2}
Pans == {<<0, 0>>, <<30, 10>>}
Views == [zoom : Zooms, pan : Pans]

\* state.map.latLngToContainerPoint: geographic position -> rounded container
\* pixel; non-finite when the position lies outside the projection's domain.
latLngToContainerPoint(ll, v) ==
    [x |-> ll[2] * v.zoom - v.pan[1],
     y |-> ll[1] * v.zoom - v.pan[2],
     finite |-> ll[1] # BadLat]

\* Math.floor(a / b) for b > 0
Floor(a, b) == a \div b

\* state._cellKeyFromPoint
cellKeyFromPoint(pt) ==
    LET cx == Floor(pt.x, gridCell)
        cy == Floor(pt.y, gridCell)
    IN  [cx |-> cx, cy |-> cy, key |-> <<cx, cy>>]

\* L.geoJSON(gj): one sublayer per feature, carrying the feature.  Feature
\* objects are told apart by the layer that owns them and their position.
Sublayers(lyr, gj) ==
    [i \in 1..Len(gj) |-> [owner |-> lyr, idx |-> i, type |-> gj[i].type,
                           ll |-> gj[i].ll, properties |-> gj[i].properties]]

\* typeof sub.getLatLng === 'function': circle markers only
HasGetLatLng(sub) == sub.type = "Point"

\* -------------------------------------------------------- hover index build
EmptyCells == [k \in {} |-> <<>>]

\* if (!idx.has(key)) idx.set(key, []); idx.get(key).push(o)
PushCell(idx, key, o) ==
    [k \in (DOMAIN idx) \cup {key} |->
        IF k = key
        THEN (IF key \in DOMAIN idx THEN Append(idx[key], o) ELSE <<o>>)
        ELSE idx[k]]

\* variant: the isFinite test is left out
IndexSubNoFiniteCheck(idx, sub, v) ==
    IF ~HasGetLatLng(sub) THEN idx
    ELSE LET pt == latLngToContainerPoint(sub.ll, v)
         IN  PushCell(idx, cellKeyFromPoint(pt).key,
                      [x |-> pt.x, y |-> pt.y, latlng |-> sub.ll, feature |-> sub])

\* body of the eachLayer callback for one sublayer
IndexSub(idx, sub, v) ==
    IF ~HasGetLatLng(sub) THEN idx
    ELSE LET pt == latLngToContainerPoint(sub.ll, v)
         IN  IF ~pt.finite THEN idx
             ELSE PushCell(idx, cellKeyFromPoint(pt).key,
                           [x |-> pt.x, y |-> pt.y, latlng |-> sub.ll, feature |-> sub])

RECURSIVE IndexSubs(_, _, _, _)
IndexSubs(idx, subs, i, v) ==
    IF i > Len(subs) THEN idx
    ELSE IndexSubs(IndexSub(idx, subs[i], v), subs, i + 1, v)

\* variant: visibility on the map is not consulted
IndexableAnyVisibility(S, nm, lyr) == GetOr(S.hoverable, nm, FALSE)

\* which overlays feed the index: hoverable and attached to the map
Indexable(S, nm, lyr) ==
    /\ GetOr(S.hoverable, nm, FALSE)
    /\ lyr \in S.onMap

RECURSIVE IndexLayers(_, _, _)
IndexLayers(idx, S, i) ==
    IF i > Len(S.layers) THEN idx
    ELSE LET nm == S.layers[i][1]
             lyr == S.layers[i][2]
         IN  IF ~Indexable(S, nm, lyr) THEN IndexLayers(idx, S, i + 1)
             ELSE IndexLayers(IndexSubs(idx, Sublayers(lyr, S.gj[lyr]), 1, S.view), S, i + 1)

\* the candidates held by the cells of an index
Cands(cells) == UNION {{cells[k][i] : i \in 1..Len(cells[k])} : k \in DOMAIN cells}

\* variant: the candidates are added to the cells of the previous index
rebuildHoverIndexInPlace(S) ==
    [S EXCEPT !.index = [built |-> TRUE, cells |-> IndexLayers(S.index.cells, S, 1)],
              !.rebuilds = @ + 1]

\* state._rebuildHoverIndex: const idx = new Map(); ...; state.hoverIndex = idx
rebuildHoverIndex(S) ==
    [S EXCEPT !.index = [built |-> TRUE, cells |-> IndexLayers(EmptyCells, S, 1)],
              !.rebuilds = @ + 1]

\* --------------------------------------------------------------- reconciler
\* JSON.stringify(gj): the text of the collection; equal exactly for
\* collections with the same features, positions and property order.
JSONstringify(gj) == <<"json", gj>>

\* for (const [k, v] of Object.entries(src)) desired[k] = {geojson: v, hoverable: h}
RECURSIVE MergeInto(_, _, _, _)
MergeInto(desired, src, i, h) ==
    IF i > Len(src) THEN desired
    ELSE MergeInto(Put(desired, src[i][1], [geojson |-> src[i][2], hoverable |-> h]),
                   src, i + 1, h)

\* variant: the groups merged in the opposite order, static entries override
DesiredStaticWins(staticDict, hoverDict) ==
    MergeInto(MergeInto(<<>>, hoverDict, 1, TRUE), staticDict, 1, FALSE)

\* the merged view: static entries first, hover entries override
Desired(staticDict, hoverDict) ==
    MergeInto(MergeInto(<<>>, staticDict, 1, FALSE), hoverDict, 1, TRUE)

\* variant: the stored text is compared with the collection object itself
needsCreateRawCompare(S, name, serialized, hoverable) ==
    \/ ~Has(S.layers, name)
    \/ ~Has(S.gdata, name) \/ Get(S.gdata, name) # <<"object", serialized[2]>>
    \/ ~Has(S.hoverable, name) \/ Get(S.hoverable, name) # hoverable

\* variant: a change of the eligibility flag alone is not detected
needsCreateNoFlag(S, name, serialized, hoverable) ==
    \/ ~Has(S.layers, name)
    \/ ~Has(S.gdata, name) \/ Get(S.gdata, name) # serialized

\* variant: a stored drawable that is off the map is re-created as well
needsCreateOffMap(S, name, serialized, hoverable) ==
    \/ ~Has(S.layers, name)
    \/ ~Has(S.gdata, name) \/ Get(S.gdata, name) # serialized
    \/ ~Has(S.hoverable, name) \/ Get(S.hoverable, name) # hoverable
    \/ Get(S.layers, name) \notin S.onMap

\* a missing table entry reads as undefined, which differs from any value
needsCreate(S, name, serialized, hoverable) ==
    \/ ~Has(S.layers, name)
    \/ ~Has(S.gdata, name) \/ Get(S.gdata, name) # serialized
    \/ ~Has(S.hoverable, name) \/ Get(S.hoverable, name) # hoverable

\* identity of the next layer object constructed: newer than every other
FreshId(S) == 1 + CHOOSE m \in S.alloc \cup {0} : \A o \in S.alloc : o <= m

\* variant: the layer is left registered in the layers control
controlRemoveLayerSkip(S, lyr) == S

\* state.geojsonControl.removeLayer(lyr) inside try/catch: a layer that is
\* undefined (the call throws, the catch drops the error) or not registered
\* leaves the control as it is
controlRemoveLayer(S, lyr) ==
    IF lyr \in S.inCtl
    THEN [S EXCEPT !.inCtl = @ \ {lyr}, !.detaches = @ + 1]
    ELSE [S EXCEPT !.swallowed = @ + 1]

\* variant: the fingerprint entry is left behind
dropEntriesKeepData(S, name) ==
    [S EXCEPT !.layers = Del(@, name),
              !.hoverable = Del(@, name)]

\* delete state.geojsonLayers[name]; delete state.geojsonData[name];
\* delete state.geojsonHoverable[name]
dropEntries(S, name) ==
    [S EXCEPT !.layers = Del(@, name),
              !.gdata = Del(@, name),
              !.hoverable = Del(@, name)]

\* layer.addTo(map); store in the three tables; control.addOverlay(layer, name)
storeLayer(S, name, lyr, gj, serialized, hoverable) ==
    [S EXCEPT !.gj = [k \in (DOMAIN @) \cup {lyr} |-> IF k = lyr THEN gj ELSE @[k]],
              !.alloc = @ \cup {lyr},
              !.onMap = @ \cup {lyr},
              !.layers = Put(@, name, lyr),
              !.gdata = Put(@, name, serialized),
              !.hoverable = Put(@, name, hoverable),
              !.inCtl = @ \cup {lyr},
              !.creates = @ + 1]

\* variant: the rebuild is skipped unless the upsert pass created a layer
refreshIndexIfChanged(S, changedVisiblePoints) ==
    IF changedVisiblePoints THEN rebuildHoverIndex(S) ELSE S

\* "Rebuild the hover grid index to reflect current visibility and geometry"
refreshIndex(S, changedVisiblePoints) == rebuildHoverIndex(S)

RECURSIVE syncGeojson(_, _, _)
RECURSIVE removalPass(_, _, _, _, _)
RECURSIVE upsertPass(_, _, _, _, _)
RECURSIVE mapRemoveLayer(_, _, _, _)

\* state.map.removeLayer(lyr) inside try/catch.  A layer that is undefined
\* (the call throws, the catch drops the error) or not on the map leaves the
\* map as it is.  Removing a layer that is on the map and registered in the
\* layers control makes the control fire 'overlayremove' on the map, whose
\* listener runs sync_geojson synchronously, before removeLayer returns: the
\* nested pass starts on the tables of the pass in progress.
mapRemoveLayer(S, lyr, sd, hd) ==
    IF lyr = Undefined \/ lyr \notin S.onMap THEN [S EXCEPT !.swallowed = @ + 1]
    ELSE LET S1 == [S EXCEPT !.onMap = @ \ {lyr}, !.detaches = @ + 1]
         IN  IF lyr \in S1.inCtl
             THEN syncGeojson([S1 EXCEPT !.reentered = @ + 1], sd, hd)
             ELSE S1

\* variant: a detachment that finds the layer absent skips the rest of the
\* iteration, as if the deletes were inside the try block
removalPassSkipOnFailure(S, keys, i, sd, hd) ==
    IF i > Len(keys) THEN S
    ELSE LET name == keys[i]
         IN  IF name \in KeySet(Desired(sd, hd))
             THEN removalPass(S, keys, i + 1, sd, hd)
             ELSE LET lyr == GetOr(S.layers, name, Undefined)
                      S1 == mapRemoveLayer(S, lyr, sd, hd)
                      S2 == controlRemoveLayer(S1, lyr)
                  IN  IF lyr = Undefined \/ lyr \notin S.onMap
                      THEN removalPass(S1, keys, i + 1, sd, hd)
                      ELSE removalPass(dropEntries(S2, name), keys, i + 1, sd, hd)

\* "Remove overlays no longer present": keys is the Object.keys snapshot
removalPass(S, keys, i, sd, hd) ==
    IF i > Len(keys) THEN S
    ELSE LET name == keys[i]
         IN  IF name \in KeySet(Desired(sd, hd))
             THEN removalPass(S, keys, i + 1, sd, hd)
             ELSE LET lyr == GetOr(S.layers, name, Undefined)
                      S1 == mapRemoveLayer(S, lyr, sd, hd)
                      S2 == controlRemoveLayer(S1, lyr)
                  IN  removalPass(dropEntries(S2, name), keys, i + 1, sd, hd)

\* "Add or update overlays": desired is the Object.entries snapshot
upsertPass(S, desired, i, sd, hd) ==
    IF i > Len(desired) THEN S
    ELSE LET name == desired[i][1]
             gj == desired[i][2].geojson
             hoverable == desired[i][2].hoverable
             serialized == JSONstringify(gj)
         IN  IF ~needsCreate(S, name, serialized, hoverable)
             THEN upsertPass(S, desired, i + 1, sd, hd)
             ELSE LET old == GetOr(S.layers, name, Undefined)
                      S1 == IF old # Undefined
                            THEN controlRemoveLayer(mapRemoveLayer(S, old, sd, hd), old)
                            ELSE S
                      S2 == storeLayer(S1, name, FreshId(S1), gj, serialized, hoverable)
                  IN  upsertPass(S2, desired, i + 1, sd, hd)

\* the sync_geojson script; changedVisiblePoints is set by every creation
\* of the upsert pass and is not consulted by the final rebuild
syncGeojson(S, sd, hd) ==
    LET desired == Desired(sd, hd)
        S1 == removalPass(S, Keys(S.layers), 1, sd, hd)
        S2 == upsertPass(S1, desired, 1, sd, hd)
    IN  refreshIndex(S2, S2.creates > S1.creates)

\* -------------------------------------------------------------------- state
VARIABLES
    geojson_overlays,        \* data.geojson_overlays (static group)
    geojson_hover_overlays,  \* data.geojson_hover_overlays (hover group)
    show_hover,              \* data.show_hover
    geojsonLayers,           \* state.geojsonLayers: name -> layer
    geojsonData,             \* state.geojsonData: name -> serialized content
    geojsonHoverable,        \* state.geojsonHoverable: name -> boolean
    mapLayers,               \* overlay layers attached to state.map
    controlLayers,           \* overlay layers registered in state.geojsonControl
    layerGj,                 \* content each live layer was built from
    hoverIndex,              \* state.hoverIndex (built = FALSE: null)
    view,                    \* current projection of state.map
    viewChanging,            \* "pan" / "zoom" while the view moves, else "none"
    mmPending,               \* state._mmPending
    mmLast,                  \* state._mmLast
    rafQueue,                \* outstanding requestAnimationFrame callbacks
    hover,                   \* state.hover marker: attached?, position, label
    last,                    \* record of what the latest handler did
    gridP, gridC             \* query point and candidate of the grid check

vars == <<geojson_overlays, geojson_hover_overlays, show_hover, geojsonLayers,
          geojsonData, geojsonHoverable, mapLayers, controlLayers, layerGj,
          hoverIndex, view, viewChanging, mmPending, mmLast, rafQueue, hover,
          last, gridP, gridC>>

dataVars == <<geojson_overlays, geojson_hover_overlays>>
tableVars == <<geojsonLayers, geojsonData, geojsonHoverable, mapLayers,
               controlLayers, layerGj>>
throttleVars == <<mmPending, mmLast, rafQueue>>
gridVars == <<gridP, gridC>>

NoFeature == [owner |-> 0, idx |-> 0, type |-> "none", ll |-> <<0, 0>>, properties |-> <<>>]
NoCand == [x |-> 0, y |-> 0, latlng |-> <<0, 0>>, feature |-> NoFeature]
NoEvent == [set |-> FALSE, latlng |-> <<0, 0>>]

\* what a handler did: rebuilds/creates/detaches count index rebuilds, layer
\* constructions and effective detachments; swallowed counts detachments
\* that found the layer undefined or already absent; reentered counts the
\* sync_geojson calls that began inside a running pass; discarded tells that
\* a candidate of the previous index is not in the new one; queried/p/hit/
\* best describe the index query of a frame callback; notified counts
\* hover_layer events and detail is their payload; ev is the pointer event
\* onMouseMove accepted, coalesced tells that it replaced a stored event at
\* another position while a callback was pending (a frame callback reports
\* it for the move right before it); hid tells that the mouseout listener
\* found the hover marker attached; toggled is the layer (by its identity
\* before the handler) the user ticked or unticked in the layers control; renum maps a layer identity of before
\* the handler to its identity after it (0: the layer is gone).
Idle(h) == [h |-> h, rebuilds |-> 0, creates |-> 0, detaches |-> 0,
            swallowed |-> 0, reentered |-> 0, discarded |-> FALSE, toggled |-> Undefined,
            queried |-> FALSE, p |-> [x |-> 0, y |-> 0], hit |-> FALSE,
            best |-> NoCand, notified |-> 0, detail |-> NoFeature,
            ev |-> NoEvent, coalesced |-> FALSE, hid |-> FALSE,
            renum |-> [id \in LayerIds |-> id]]

\* ordered dictionaries name -> content the controller may send
Dicts ==
    {<<>>}
    \cup {<< <<n, c>> >> : n \in Names, c \in Contents}
    \cup {d \in {<< <<n1, c1>>, <<n2, c2>> >> :
                   n1 \in Names, n2 \in Names, c1 \in Contents, c2 \in Contents} :
            d[1][1] # d[2][1]}

\* a pixel point together with the grid cell the index puts it in
Locate(x, y) == [pt |-> [x |-> x, y |-> y], cell |-> cellKeyFromPoint([x |-> x, y |-> y])]

\* the handler-local view of the mutable state
St == [layers |-> geojsonLayers, gdata |-> geojsonData, hoverable |-> geojsonHoverable,
       onMap |-> mapLayers, inCtl |-> controlLayers, gj |-> layerGj,
       alloc |-> mapLayers \cup controlLayers \cup {geojsonLayers[i][2] : i \in 1..Len(geojsonLayers)},
       index |-> hoverIndex, view |-> view,
       rebuilds |-> 0, creates |-> 0, detaches |-> 0, swallowed |-> 0, reentered |-> 0,
       toggled |-> Undefined]

\* layers whose content can still be read: those stored in the table
Stored(S) == {S.layers[i][2] : i \in 1..Len(S.layers)}

\* layers still referenced by the map, the control or the table
Live(S) == S.onMap \cup S.inCtl \cup Stored(S)

\* Layer identities are kept dense: the live layers are numbered 1..k in order
\* of construction, so states that differ only in the numbering coincide.
Rank(S, id) == IF id \in Live(S) THEN Cardinality({j \in Live(S) : j <= id}) ELSE 0

RenumCand(S, o) == [o EXCEPT !.feature.owner = Rank(S, @)]
RenumIndex(S) ==
    [S.index EXCEPT !.cells = [k \in DOMAIN @ |->
        [i \in 1..Len(@[k]) |-> RenumCand(S, @[k][i])]]]

\* write a handler's result back; the content of a layer that left the table
\* is never read again
Commit(S, h) ==
    /\ Cardinality(Live(S)) <= MaxLayers
    /\ geojsonLayers' = [i \in 1..Len(S.layers) |-> <<S.layers[i][1], Rank(S, S.layers[i][2])>>]
    /\ geojsonData' = S.gdata
    /\ geojsonHoverable' = S.hoverable
    /\ mapLayers' = {Rank(S, id) : id \in S.onMap}
    /\ controlLayers' = {Rank(S, id) : id \in S.inCtl}
    /\ layerGj' = [n \in LayerIds |->
                     IF \E id \in Stored(S) : Rank(S, id) = n
                     THEN S.gj[CHOOSE id \in Stored(S) : Rank(S, id) = n]
                     ELSE <<>>]
    /\ hoverIndex' = RenumIndex(S)
    /\ last' = [Idle(h) EXCEPT !.rebuilds = S.rebuilds, !.creates = S.creates,
                               !.detaches = S.detaches, !.swallowed = S.swallowed,
                               !.reentered = S.reentered, !.toggled = S.toggled,
                               !.renum = [id \in LayerIds |-> Rank(S, id)]]

InitCore ==
    /\ geojson_overlays \in Dicts
    /\ geojson_hover_overlays \in Dicts
    /\ Len(geojson_overlays) + Len(geojson_hover_overlays) <= MaxEntries
    /\ show_hover \in BOOLEAN
    /\ geojsonLayers = <<>>
    /\ geojsonData = <<>>
    /\ geojsonHoverable = <<>>
    /\ mapLayers = {}
    /\ controlLayers = {}
    /\ layerGj = [id \in LayerIds |-> <<>>]
    /\ hoverIndex = [built |-> FALSE, cells |-> EmptyCells]
    /\ view \in Views
    /\ viewChanging = "none"
    /\ mmPending = FALSE
    /\ mmLast = NoEvent
    /\ rafQueue = 0
    /\ hover = [onMap |-> FALSE, latlng |-> <<0, 0>>, tooltip |-> <<>>, open |-> FALSE]
    /\ last = Idle("render")

\* the state after render()
Init ==
    /\ InitCore
    /\ gridP = Locate(0, 0)
    /\ gridC = Locate(0, 0)

\* the external controller replaces the static overlay group
SetStatic(sd) ==
    /\ sd # geojson_overlays
    /\ Len(sd) + Len(geojson_hover_overlays) <= MaxEntries
    /\ geojson_overlays' = sd
    /\ last' = Idle("data")
    /\ UNCHANGED <<geojson_hover_overlays, show_hover, tableVars, hoverIndex, view,
                   viewChanging, throttleVars, hover, gridVars>>

\* the external controller replaces the hover-eligible overlay group
SetHover(hd) ==
    /\ hd # geojson_hover_overlays
    /\ Len(geojson_overlays) + Len(hd) <= MaxEntries
    /\ geojson_hover_overlays' = hd
    /\ last' = Idle("data")
    /\ UNCHANGED <<geojson_overlays, show_hover, tableVars, hoverIndex, view,
                   viewChanging, throttleVars, hover, gridVars>>

\* the sync_geojson script runs
SyncGeojson ==
    /\ Commit(syncGeojson(St, geojson_overlays, geojson_hover_overlays), "sync")
    /\ UNCHANGED <<dataVars, show_hover, view, viewChanging, throttleVars, hover, gridVars>>

\* the user ticks or unticks an overlay in the layers control: the layer is
\* added to or removed from the map and 'overlayadd' / 'overlayremove' runs
\* sync_geojson
ToggleOverlay(lyr) ==
    /\ lyr \in controlLayers
    /\ LET S1 == IF lyr \in mapLayers
                 THEN [St EXCEPT !.onMap = @ \ {lyr}, !.toggled = lyr]
                 ELSE [St EXCEPT !.onMap = @ \cup {lyr}, !.toggled = lyr]
       IN  Commit(syncGeojson(S1, geojson_overlays, geojson_hover_overlays), "sync")
    /\ UNCHANGED <<dataVars, show_hover, view, viewChanging, throttleVars, hover, gridVars>>

\* the user toggles the 'Drawn Shapes' overlay, registered in the same control
ToggleDrawnShapes ==
    /\ Commit(syncGeojson(St, geojson_overlays, geojson_hover_overlays), "sync")
    /\ UNCHANGED <<dataVars, show_hover, view, viewChanging, throttleVars, hover, gridVars>>

\* the map is being dragged or zoomed: the projection changes
ViewChange(v) ==
    /\ v # view
    /\ view' = v
    /\ viewChanging' = IF v.zoom # view.zoom \/ viewChanging = "zoom" THEN "zoom" ELSE "pan"
    /\ last' = Idle("move")
    /\ UNCHANGED <<dataVars, show_hover, tableVars, hoverIndex, throttleVars, hover, gridVars>>

\* the listener of 'zoomend' / 'moveend': state._rebuildHoverIndex()
ViewEnd(h, next) ==
    /\ viewChanging' = next
    /\ LET S == rebuildHoverIndex(St)
       IN  /\ hoverIndex' = S.index
           /\ last' = [Idle(h) EXCEPT !.rebuilds = S.rebuilds,
                           !.discarded = Cands(hoverIndex.cells) \ Cands(S.index.cells) # {}]
    /\ UNCHANGED <<dataVars, show_hover, tableVars, view, throttleVars, hover, gridVars>>

\* a zoom ends with 'zoomend' followed by 'moveend'; a pan with 'moveend'
ZoomEnd == viewChanging = "zoom" /\ ViewEnd("zoomend", "pan")
MoveEnd == viewChanging = "pan" /\ ViewEnd("moveend", "none")

\* --------------------------------------------------------- hover controller
\* positions the pointer may report
MouseLatLngs == {<<0, 5>>, <<0, 10>>, <<5, -30>>, <<40, 40>>}

\* featureText: the name property when truthy, else the 'key: value' pairs
\* joined by ', ' (the label is kept as the sequence of its pieces)
RECURSIVE JoinEntries(_, _)
JoinEntries(props, i) ==
    IF i > Len(props) THEN <<>>
    ELSE (IF i > 1 THEN <<", ">> ELSE <<>>)
         \o <<props[i][1], ": ", props[i][2]>> \o JoinEntries(props, i + 1)

\* variant: the name property is used whenever the key is present
featureTextNameIfPresent(feature) ==
    IF feature.type = "none" \/ feature.properties = NullProperties THEN <<>>
    ELSE IF Has(feature.properties, "name")
         THEN <<Get(feature.properties, "name")>>
         ELSE JoinEntries(feature.properties, 1)

\* if (feature && feature.properties) { if (feature.properties.name) return
\* it; return the joined entries } return '': the empty string is falsy
featureText(feature) ==
    IF feature.type = "none" \/ feature.properties = NullProperties THEN <<>>
    ELSE IF Has(feature.properties, "name") /\ Get(feature.properties, "name") # ""
         THEN <<Get(feature.properties, "name")>>
         ELSE JoinEntries(feature.properties, 1)

\* squared pixel distance; Math.sqrt is monotone and exact on squares, so
\* d < bestDist and d <= 25 are decided on the squares
Dist2(p, o) == (p.x - o.x) * (p.x - o.x) + (p.y - o.y) * (p.y - o.y)

NoBest == [found |-> FALSE, o |-> NoCand, d2 |-> 0]

\* variant: a candidate at equal distance replaces the current best
closerOrEqual(d2, best) == ~best.found \/ d2 <= best.d2

\* if (d < bestDist) with bestDist = Infinity before the first candidate
closer(d2, best) == ~best.found \/ d2 < best.d2

RECURSIVE scanCell(_, _, _, _)
scanCell(best, arr, i, p) ==
    IF i > Len(arr) THEN best
    ELSE LET d2 == Dist2(p, arr[i])
         IN  scanCell(IF closer(d2, best) THEN [found |-> TRUE, o |-> arr[i], d2 |-> d2]
                      ELSE best, arr, i + 1, p)

\* variant: only the pointer's own cell is scanned
NeighbourhoodOwnCell == << <<0, 0>> >>

\* for dy = -1..1, for dx = -1..1: the scanned cell offsets <<dx, dy>>
Neighbourhood == << <<-1, -1>>, <<0, -1>>, <<1, -1>>,
                    <<-1, 0>>,  <<0, 0>>,  <<1, 0>>,
                    <<-1, 1>>,  <<0, 1>>,  <<1, 1>> >>

RECURSIVE scanCells(_, _, _, _, _)
scanCells(best, cells, cell, j, p) ==
    IF j > Len(Neighbourhood) THEN best
    ELSE LET k == <<cell.cx + Neighbourhood[j][1], cell.cy + Neighbourhood[j][2]>>
         IN  IF k \notin DOMAIN cells THEN scanCells(best, cells, cell, j + 1, p)
             ELSE scanCells(scanCell(best, cells[k], 1, p), cells, cell, j + 1, p)

\* best && bestDist <= state.hoverThresholdPx
withinThreshold(best) == best.found /\ best.d2 <= hoverThresholdPx * hoverThresholdPx

\* the nearest-candidate search of the frame callback
queryNearest(index, p) ==
    LET best == scanCells(NoBest, index.cells, cellKeyFromPoint(p), 1, p)
    IN  [hit |-> withinThreshold(best), best |-> best.o]

\* the throttle fields as one record
Throttle == [pending |-> mmPending, last |-> mmLast, queue |-> rafQueue]

\* variant: every accepted event schedules a callback
onMouseMoveUnthrottled(T, ev, enabled) ==
    IF ~enabled THEN T
    ELSE [pending |-> TRUE, last |-> ev, queue |-> T.queue + 1]

\* variant: the event is stored only when it schedules the callback
onMouseMoveFirstWins(T, ev, enabled) ==
    IF ~enabled \/ T.pending THEN T
    ELSE [pending |-> TRUE, last |-> ev, queue |-> T.queue + 1]

\* state.onMouseMove up to requestAnimationFrame: enabled stands for
\* data.show_hover && state.hoverIndex
onMouseMove(T, ev, enabled) ==
    IF ~enabled THEN T
    ELSE IF T.pending THEN [T EXCEPT !.last = ev]
    ELSE [pending |-> TRUE, last |-> ev, queue |-> T.queue + 1]

\* the 'mousemove' listener
MouseMove(ll) ==
    LET enabled == show_hover /\ hoverIndex.built
        ev == [set |-> TRUE, latlng |-> ll]
        T == onMouseMove(Throttle, ev, enabled)
    IN  /\ mmPending' = T.pending
        /\ mmLast' = T.last
        /\ rafQueue' = T.queue
        /\ last' = [Idle("mousemove") EXCEPT
                       !.ev = IF enabled THEN ev ELSE NoEvent,
                       !.coalesced = enabled /\ mmPending /\ mmLast # ev]
        /\ UNCHANGED <<dataVars, show_hover, tableVars, hoverIndex, view, viewChanging,
                       hover, gridVars>>

\* variant: the callback refreshes the index before it searches
indexForQueryRebuilt(S) == rebuildHoverIndex(S)

\* the callback searches state.hoverIndex as it finds it
indexForQuery(S) == S

\* variant: a miss leaves the marker where the last hit put it
hoverAfterQueryKeepOnMiss(h, q) ==
    IF q.hit
    THEN [onMap |-> TRUE, latlng |-> q.best.latlng,
          tooltip |-> featureText(q.best.feature), open |-> TRUE]
    ELSE h

\* "Show/hide the hover marker depending on distance"
hoverAfterQuery(h, q) ==
    IF q.hit
    THEN [onMap |-> TRUE, latlng |-> q.best.latlng,
          tooltip |-> featureText(q.best.feature), open |-> TRUE]
    ELSE [h EXCEPT !.onMap = FALSE, !.open = FALSE]

\* variant: only the tooltip is closed
onMouseOutCloseOnly(h) == [h EXCEPT !.open = FALSE]

\* body of the 'mouseout' listener
onMouseOut(h) == [h EXCEPT !.onMap = FALSE, !.open = FALSE]

\* variant: the callback leaves the pending flag set
onFrameKeepPending(T) == [T EXCEPT !.queue = @ - 1]

\* the callback leaves the frame queue and starts with
\* state._mmPending = false
onFrame(T) == [T EXCEPT !.queue = @ - 1, !.pending = FALSE]

\* the requestAnimationFrame callback scheduled by onMouseMove
Frame ==
    /\ rafQueue > 0
    /\ rafQueue' = onFrame(Throttle).queue
    /\ mmPending' = onFrame(Throttle).pending
    /\ IF ~mmLast.set
       THEN /\ last' = Idle("frame")
            /\ UNCHANGED <<hover, hoverIndex>>
       ELSE LET S == indexForQuery(St)
                p == latLngToContainerPoint(mmLast.latlng, view)
            IN  \E q \in {queryNearest(S.index, p)} :
                /\ last' = [Idle("frame") EXCEPT !.queried = TRUE,
                                !.p = [x |-> p.x, y |-> p.y], !.hit = q.hit,
                                !.best = IF q.hit THEN q.best ELSE NoCand,
                                !.notified = IF q.hit THEN 1 ELSE 0,
                                !.detail = IF q.hit THEN q.best.feature ELSE NoFeature,
                                !.rebuilds = S.rebuilds,
                                !.coalesced = last.h = "mousemove" /\ last.coalesced]
                /\ hoverIndex' = S.index
                /\ hover' = hoverAfterQuery(hover, q)
    /\ UNCHANGED <<dataVars, show_hover, tableVars, view, viewChanging,
                   mmLast, gridVars>>

\* the 'mouseout' listener
MouseOut ==
    /\ hover' = onMouseOut(hover)
    /\ last' = [Idle("mouseout") EXCEPT !.hid = hover.onMap]
    /\ UNCHANGED <<dataVars, show_hover, tableVars, hoverIndex, view, viewChanging,
                   throttleVars, gridVars>>

\* the external controller flips data.show_hover
SetShowHover ==
    /\ show_hover' = ~show_hover
    /\ last' = Idle("data")
    /\ UNCHANGED <<dataVars, tableVars, hoverIndex, view, viewChanging, throttleVars,
                   hover, gridVars>>

\* hover marker after the show_hover script
showHover(h) == IF ~show_hover THEN [h EXCEPT !.onMap = FALSE, !.open = FALSE] ELSE h

\* the show_hover script runs
ShowHover ==
    /\ hover' = showHover(hover)
    /\ last' = Idle("showHover")
    /\ UNCHANGED <<dataVars, show_hover, tableVars, hoverIndex, view, viewChanging,
                   throttleVars, gridVars>>

\* the after_layout script: self.sync_geojson(); self.show_hover()
AfterLayout ==
    /\ Commit(syncGeojson(St, geojson_overlays, geojson_hover_overlays), "sync")
    /\ hover' = showHover(hover)
    /\ UNCHANGED <<dataVars, show_hover, view, viewChanging, throttleVars, gridVars>>

\* ------------------------------------------------------------ specifications
\* The reconciler: overlay data, reconciliation passes and user toggles,
\* under a fixed projection.
InitReconcile ==
    /\ Init
    /\ show_hover
    /\ view = [zoom |-> 1, pan |-> <<0, 0>>]

Next ==
    \/ \E sd \in Dicts : SetStatic(sd)
    \/ \E hd \in Dicts : SetHover(hd)
    \/ SyncGeojson
    \/ \E lyr \in LayerIds : ToggleOverlay(lyr)
    \/ ToggleDrawnShapes
    \/ AfterLayout

Spec == InitReconcile /\ [][Next]_vars

\* The hover index and controller: fixed overlay data, user toggles, viewport
\* changes and pointer events.
HoverSnapshots ==
    { << <<>>, << <<"A", FcNear>> >> >>,
      << <<>>, << <<"A", FcNear>>, <<"B", FcMixed>> >> >>,
      << << <<"A", FcMixed>> >>, << <<"B", FcNear>> >> >> }

InitHover ==
    /\ Init
    /\ show_hover
    /\ <<geojson_overlays, geojson_hover_overlays>> \in HoverSnapshots

NextHover ==
    \/ AfterLayout
    \/ \E lyr \in LayerIds : ToggleOverlay(lyr)
    \/ \E v \in Views : ViewChange(v)
    \/ ZoomEnd
    \/ MoveEnd
    \/ \E ll \in MouseLatLngs : MouseMove(ll)
    \/ Frame
    \/ MouseOut
    \/ SetShowHover
    \/ ShowHover

SpecHover == InitHover /\ [][NextHover]_vars

\* The throttle under fair frame scheduling: the browser runs every callback
\* passed to requestAnimationFrame before the next repaint, so a callback
\* that is outstanding is eventually run.
NextThrottle ==
    \/ AfterLayout
    \/ \E ll \in MouseLatLngs : MouseMove(ll)
    \/ Frame
    \/ MouseOut
    \/ SetShowHover
    \/ ShowHover

InitThrottle ==
    /\ InitHover
    /\ view = [zoom |-> 1, pan |-> <<0, 0>>]

SpecThrottle == InitThrottle /\ [][NextThrottle]_vars /\ WF_vars(Frame)

\* The index against its three triggers: overlay data that adds, drops and
\* re-flags overlays, reconciliation passes, user toggles and viewport changes.
FreshStatics == {<<>>, << <<"A", FcNear>> >>}
FreshHovers == {<<>>, << <<"A", FcNear>> >>, << <<"B", FcMixed>> >>,
                << <<"A", FcNear>>, <<"B", FcMixed>> >>}

InitFresh ==
    /\ Init
    /\ show_hover
    /\ geojson_overlays \in FreshStatics
    /\ geojson_hover_overlays \in FreshHovers

NextFresh ==
    \/ \E sd \in FreshStatics : SetStatic(sd)
    \/ \E hd \in FreshHovers : SetHover(hd)
    \/ SyncGeojson
    \/ \E lyr \in LayerIds : ToggleOverlay(lyr)
    \/ \E v \in Views : ViewChange(v)
    \/ ZoomEnd
    \/ MoveEnd

SpecFresh == InitFresh /\ [][NextFresh]_vars

\* The grid on its own: a query point and a candidate at every offset up to
\* GridReach, each located by _cellKeyFromPoint.
GridAnchors == {-26, -25, -1, 0, 12, 24, 25}
GridOffsets == (0 - GridReach)..GridReach

PlaceQuery(x, y) ==
    /\ gridC = gridP
    /\ gridP' = Locate(x, y)
    /\ gridC' = Locate(x, y)
    /\ UNCHANGED <<dataVars, show_hover, tableVars, hoverIndex, view, viewChanging,
                   throttleVars, hover, last>>

PlaceCandidate(dx, dy) ==
    /\ gridC = gridP
    /\ gridC' = Locate(gridP.pt.x + dx, gridP.pt.y + dy)
    /\ UNCHANGED <<dataVars, show_hover, tableVars, hoverIndex, view, viewChanging,
                   throttleVars, hover, last, gridP>>

ClearCandidate ==
    /\ gridC # gridP
    /\ gridC' = gridP
    /\ UNCHANGED <<dataVars, show_hover, tableVars, hoverIndex, view, viewChanging,
                   throttleVars, hover, last, gridP>>

InitGrid ==
    /\ InitCore
    /\ geojson_overlays = <<>>
    /\ geojson_hover_overlays = <<>>
    /\ show_hover
    /\ view = [zoom |-> 1, pan |-> <<0, 0>>]
    /\ gridP = Locate(0, 0)
    /\ gridC = Locate(0, 0)

NextGrid ==
    \/ \E x \in GridAnchors, y \in GridAnchors : PlaceQuery(x, y)
    \/ \E dx \in GridOffsets, dy \in GridOffsets : PlaceCandidate(dx, dy)
    \/ ClearCandidate

SpecGrid == InitGrid /\ [][NextGrid]_vars

\* ------------------------------------------------------------------- claims
\* names, content and eligibility of the merged snapshot, stated directly on
\* the two input groups
DesiredNames == KeySet(geojson_overlays) \cup KeySet(geojson_hover_overlays)
DesiredFlag(n) == n \in KeySet(geojson_hover_overlays)
DesiredContent(n) ==
    IF n \in KeySet(geojson_hover_overlays)
    THEN Get(geojson_hover_overlays, n)
    ELSE Get(geojson_overlays, n)

\* the handler just finished was a run of the sync_geojson script
PassDone == last.h = "sync"

\* the layer stored under n before the step is the layer stored after it
SameDrawable(n) ==
    /\ Has(geojsonLayers, n)
    /\ Has(geojsonLayers', n)
    /\ Get(geojsonLayers', n) = last'.renum[Get(geojsonLayers, n)]

\* the layer stored under n before the step is, after it, neither on the map
\* nor in the layers control
OldDetached(n) ==
    LET now == last'.renum[Get(geojsonLayers, n)]
    IN  now = 0 \/ (now \notin mapLayers' /\ now \notin controlLayers')

\* C1: after every completed reconciliation pass the key sets of the
\* drawable, fingerprint and eligibility tables coincide and equal the names
\* of the merged snapshot (static group union hover group).
C1_TablesMatchSnapshot ==
    PassDone =>
        /\ KeySet(geojsonLayers) = DesiredNames
        /\ KeySet(geojsonData) = DesiredNames
        /\ KeySet(geojsonHoverable) = DesiredNames
        /\ Len(geojsonLayers) = Cardinality(DesiredNames)

\* C1 witness: a pass that both dropped and created overlays has finished
C1_Witness ==
    /\ PassDone
    /\ last.creates > 0
    /\ last.detaches > 0
    /\ DesiredNames # {}
    /\ Len(geojsonLayers) < Cardinality(Names)

\* C2: a pass that directly follows a pass (same snapshot) creates no
\* drawable, detaches none, and leaves every stored drawable the identical
\* object.
C2_ResyncKeepsDrawables ==
    [][(PassDone /\ last'.h = "sync") =>
          /\ last'.creates = 0
          /\ last'.detaches = 0
          /\ \A n \in KeySet(geojsonLayers) : SameDrawable(n)]_vars

\* C2 witness: a pass over a non-empty table that created and detached nothing
C2_Witness ==
    /\ PassDone
    /\ last.creates = 0
    /\ last.detaches = 0
    /\ Len(geojsonLayers) = Cardinality(Names)

\* a pass that removed and created nothing
NoOpPass == PassDone /\ last.creates = 0 /\ last.detaches = 0

\* C3 as stated: a no-op pass triggers zero hover-index rebuilds.
C3_NoOpPassNoRebuild == NoOpPass => last.rebuilds = 0

\* C3 amended: a no-op pass triggers exactly one hover-index rebuild (the
\* rebuild at the end of the pass is unconditional).
C3_NoOpPassOneRebuild == NoOpPass => last.rebuilds = 1

\* C3 witness: a no-op pass finished and left a rebuilt, non-empty index
C3_Witness ==
    /\ NoOpPass
    /\ hoverIndex.built
    /\ hoverIndex.cells # EmptyCells

\* C4 as stated: a pass that adds, removes or replaces at least one overlay
\* drawable produces exactly one hover-index rebuild.
C4_ChangeOneRebuild ==
    (PassDone /\ (last.creates > 0 \/ last.detaches > 0)) => last.rebuilds = 1

\* C5: a name in both input groups is stored hover-eligible with the hover
\* group's content; a name only in the static group is stored not eligible.
C5_HoverGroupWins ==
    PassDone =>
        /\ \A n \in KeySet(geojson_overlays) \cap KeySet(geojson_hover_overlays) :
              /\ Has(geojsonHoverable, n) /\ Get(geojsonHoverable, n) = TRUE
              /\ Has(geojsonData, n)
              /\ Get(geojsonData, n) = JSONstringify(Get(geojson_hover_overlays, n))
              /\ Has(geojsonLayers, n)
              /\ layerGj[Get(geojsonLayers, n)] = Get(geojson_hover_overlays, n)
        /\ \A n \in KeySet(geojson_overlays) \ KeySet(geojson_hover_overlays) :
              Has(geojsonHoverable, n) /\ Get(geojsonHoverable, n) = FALSE

\* C5 witness: a pass finished for a snapshot holding one name in both groups
\* with different contents
C5_Witness ==
    /\ PassDone
    /\ \E n \in KeySet(geojson_overlays) \cap KeySet(geojson_hover_overlays) :
          Get(geojson_overlays, n) # Get(geojson_hover_overlays, n)

\* C6: every name materialized before a pass and absent from the merged
\* snapshot has, after the pass, its drawable detached from the map and the
\* layers control and no entry in any of the three tables.
C6_RemovalComplete ==
    [][last'.h = "sync" =>
          \A n \in KeySet(geojsonLayers) \ DesiredNames :
              /\ OldDetached(n)
              /\ n \notin KeySet(geojsonLayers')
              /\ n \notin KeySet(geojsonData')
              /\ n \notin KeySet(geojsonHoverable')]_vars

\* C6 witness: a pass that only removed: it detached a drawable from the map
\* and from the control and created nothing
C6_Witness ==
    /\ PassDone
    /\ last.creates = 0
    /\ last.detaches >= 2
    /\ KeySet(geojsonLayers) = DesiredNames

\* re-creation is required for n: new name, other fingerprint or other flag
Required(n) ==
    \/ ~Has(geojsonLayers, n)
    \/ Get(geojsonData, n) # JSONstringify(DesiredContent(n))
    \/ Get(geojsonHoverable, n) # DesiredFlag(n)

\* C7: the upsert pass re-creates the drawable of a name exactly when the
\* name is new or its fingerprint or eligibility flag differs; the old
\* drawable is then detached from map and control, and the new one is
\* attached to both and stored with the new fingerprint and flag.
C7_UpsertExactlyWhenRequired ==
    [][last'.h = "sync" =>
          \A n \in DesiredNames :
              /\ Required(n) <=> ~SameDrawable(n)
              /\ Required(n) =>
                    /\ Has(geojsonLayers, n) => OldDetached(n)
                    /\ Has(geojsonLayers', n)
                    /\ Get(geojsonLayers', n) \in mapLayers'
                    /\ Get(geojsonLayers', n) \in controlLayers'
                    /\ layerGj'[Get(geojsonLayers', n)] = DesiredContent(n)
                    /\ Get(geojsonData', n) = JSONstringify(DesiredContent(n))
                    /\ Get(geojsonHoverable', n) = DesiredFlag(n)]_vars

\* C7 witness: a pass replaced one overlay and kept the other
C7_Witness ==
    /\ PassDone
    /\ last.creates = 1
    /\ last.detaches >= 1
    /\ Len(geojsonLayers) = Cardinality(Names)

\* every candidate held by the index, and those within the snap distance of p
IndexedCands ==
    UNION {{hoverIndex.cells[k][i] : i \in 1..Len(hoverIndex.cells[k])} :
            k \in DOMAIN hoverIndex.cells}
Within(p) ==
    {o \in IndexedCands : Dist2(p, o) <= hoverThresholdPx * hoverThresholdPx}

\* a frame callback has just run its index query
QueryDone == last.h = "frame" /\ last.queried

\* C8: the processed query selects a candidate of minimum pixel distance
\* among all indexed candidates within the threshold, and none when no
\* indexed candidate is within the threshold (so never on an empty index).
C8_QueryNearest ==
    QueryDone =>
        IF Within(last.p) = {}
        THEN ~last.hit
        ELSE /\ last.hit
             /\ last.best \in Within(last.p)
             /\ \A o \in Within(last.p) : Dist2(last.p, last.best) <= Dist2(last.p, o)

\* C8 witness: a hit on a candidate outside the pointer's own cell, chosen
\* among several indexed candidates of which another is out of reach
C8_Witness ==
    /\ QueryDone
    /\ last.hit
    /\ cellKeyFromPoint(last.best).key # cellKeyFromPoint(last.p).key
    /\ IndexedCands \ Within(last.p) # {}

Abs(a) == IF a < 0 THEN 0 - a ELSE a

\* C9: the grid cell equals the threshold, and a candidate within the
\* threshold of a query point lies in a cell at most one column and one row
\* away from the query point's cell.
C9_NeighbourhoodSufficient ==
    /\ gridCell = hoverThresholdPx
    /\ Dist2(gridP.pt, gridC.pt) <= hoverThresholdPx * hoverThresholdPx =>
          /\ Abs(gridC.cell.cx - gridP.cell.cx) <= 1
          /\ Abs(gridC.cell.cy - gridP.cell.cy) <= 1

\* C9 witness: a candidate at negative pixel coordinates, exactly at the
\* threshold distance, in another cell than the query point
C9_Witness ==
    /\ gridC.pt.x < 0
    /\ gridC.pt.y < 0
    /\ Dist2(gridP.pt, gridC.pt) = hoverThresholdPx * hoverThresholdPx
    /\ gridC.cell.key # gridP.cell.key

\* the candidates a rebuild must produce, stated on the tables: one per
\* point feature with finite pixel position of every overlay that is
\* hover-eligible and attached to the map
ExpectedOf(nm, lyr) ==
    {[x |-> latLngToContainerPoint(layerGj[lyr][i].ll, view).x,
      y |-> latLngToContainerPoint(layerGj[lyr][i].ll, view).y,
      latlng |-> layerGj[lyr][i].ll,
      feature |-> [owner |-> lyr, idx |-> i, type |-> "Point",
                   ll |-> layerGj[lyr][i].ll,
                   properties |-> layerGj[lyr][i].properties]] :
        i \in {f \in 1..Len(layerGj[lyr]) :
                  /\ layerGj[lyr][f].type = "Point"
                  /\ layerGj[lyr][f].ll[1] # BadLat}}

ExpectedCands ==
    UNION {ExpectedOf(geojsonLayers[j][1], geojsonLayers[j][2]) :
            j \in {e \in 1..Len(geojsonLayers) :
                      /\ Has(geojsonHoverable, geojsonLayers[e][1])
                      /\ Get(geojsonHoverable, geojsonLayers[e][1])
                      /\ geojsonLayers[e][2] \in mapLayers}}

RECURSIVE SumLen(_, _)
SumLen(cells, keys) ==
    IF keys = {} THEN 0
    ELSE LET k == CHOOSE k \in keys : TRUE
         IN  Len(cells[k]) + SumLen(cells, keys \ {k})

\* a handler that ends with an index rebuild has just finished
RebuildDone == last.rebuilds > 0

\* C10: immediately after a rebuild the index holds exactly one candidate per
\* finite point feature of each hover-eligible overlay attached to the map,
\* each in the cell of its pixel position, and nothing else.
C10_RebuildExact ==
    RebuildDone =>
        /\ hoverIndex.built
        /\ IndexedCands = ExpectedCands
        /\ SumLen(hoverIndex.cells, DOMAIN hoverIndex.cells) = Cardinality(ExpectedCands)
        /\ \A k \in DOMAIN hoverIndex.cells :
              /\ hoverIndex.cells[k] # <<>>
              /\ \A i \in 1..Len(hoverIndex.cells[k]) :
                    k = <<Floor(hoverIndex.cells[k][i].x, hoverThresholdPx),
                          Floor(hoverIndex.cells[k][i].y, hoverThresholdPx)>>

\* C10 witness: after a rebuild, the one attached hover-eligible overlay of
\* two points gave exactly two candidates while another overlay is stored
\* but not attached to the map
C10_Witness ==
    /\ RebuildDone
    /\ Cardinality(IndexedCands) = 2
    /\ \E j \in 1..Len(geojsonLayers) :
          /\ Get(geojsonHoverable, geojsonLayers[j][1])
          /\ geojsonLayers[j][2] \notin mapLayers

\* a pointer move has just been handled and it was accepted
MoveAccepted == last.h = "mousemove" /\ last.ev.set

\* C11: at most one frame callback is outstanding at any time, none is left
\* once the callback has run (so at most one index query runs per frame), and
\* a pointer move handled while a callback is pending schedules no callback.
C11_OneCallbackOutstanding ==
    [][/\ rafQueue <= 1
       /\ rafQueue' <= 1
       /\ (last'.h = "mousemove" /\ mmPending) => rafQueue' = rafQueue
       /\ last'.h = "frame" => rafQueue' = 0]_vars

\* C11 witness: a move at another position was accepted while the callback
\* was pending, and still exactly one callback is outstanding
C11_Witness ==
    /\ MoveAccepted
    /\ last.coalesced
    /\ mmPending
    /\ rafQueue = 1

\* C12: every accepted pointer move becomes the stored event, nothing else
\* changes the stored event, and the query of a frame callback uses the
\* position of the event stored when the callback runs: the most recent
\* accepted one, never an earlier event of the burst.
C12_LatestEventWins ==
    [][/\ (last'.h = "mousemove" /\ last'.ev.set) => mmLast' = last'.ev
       /\ mmLast' # mmLast => (last'.h = "mousemove" /\ last'.ev.set)
       /\ (last'.h = "frame" /\ last'.queried) =>
             /\ mmLast.set
             /\ last'.p.x = latLngToContainerPoint(mmLast.latlng, view).x
             /\ last'.p.y = latLngToContainerPoint(mmLast.latlng, view).y]_vars

\* C12 witness: a callback ran its query right after a move that replaced an
\* earlier event of the same burst at another position
C12_Witness ==
    /\ QueryDone
    /\ last.coalesced
    /\ last.p.x = latLngToContainerPoint(mmLast.latlng, view).x

\* C13: after a processed query, on a hit the hover marker is at the selected
\* candidate's geographic position and attached to the map, and exactly one
\* hover_layer notification carrying the candidate's feature was emitted; on
\* a miss the marker is not attached and no notification was emitted.
C13_HitShowsMissHides ==
    QueryDone =>
        IF last.hit
        THEN /\ last.best \in IndexedCands
             /\ hover.onMap
             /\ hover.latlng = last.best.latlng
             /\ last.notified = 1
             /\ last.detail = last.best.feature
             /\ last.detail.type = "Point"
        ELSE /\ ~hover.onMap
             /\ last.notified = 0

\* C13 witness: a hit on the point labelled by its properties moved the
\* marker away from its initial position
C13_Witness ==
    /\ QueryDone
    /\ last.hit
    /\ hover.latlng # <<0, 0>>
    /\ hover.tooltip = <<"value", ": ", "7">>

\* C14: after the pointer left the map area the hover marker is not attached
\* to the map, whatever the last processed query found.
C14_PointerLeaveHides == last.h = "mouseout" => (~hover.onMap /\ ~hover.open)

\* C14 witness: the pointer left while the marker was attached (after a hit)
C14_Witness ==
    /\ last.h = "mouseout"
    /\ last.hid
    /\ hover.tooltip # <<>>

\* C15 as stated: whenever a query has executed, show_hover is true.
C15_NoQueryWhileDisabled == QueryDone => show_hover

\* C16: the listener of every pan-end and zoom-end performs one rebuild, and
\* the rebuilt index is exactly what the current overlays, visibility and
\* projection give: a candidate of the previous index is in the new one only
\* if it is derived again.
C16_ViewEndRebuildsWholesale ==
    [][last'.h \in {"zoomend", "moveend"} =>
          /\ last'.rebuilds = 1
          /\ hoverIndex'.built
          /\ IndexedCands' = ExpectedCands'
          /\ SumLen(hoverIndex'.cells, DOMAIN hoverIndex'.cells) = Cardinality(ExpectedCands')
          /\ \A o \in IndexedCands : o \in IndexedCands' => o \in ExpectedCands']_vars

\* C16 witness: a pan-end or zoom-end rebuild discarded candidates of the
\* previous index and installed a non-empty one
C16_Witness ==
    /\ last.h \in {"zoomend", "moveend"}
    /\ last.discarded
    /\ IndexedCands # {}

\* C17 as stated (reconciliation against reconciliation): no sync_geojson
\* call begins while a pass is in progress, that is on tables holding a name
\* whose drawable the pass has detached and not yet dropped or replaced.
C17_ReconciliationAtomic == PassDone => last.reentered = 0

\* C18: after a rebuild the index is installed and holds no candidate of a
\* non-finite point or of a sublayer without position, while every other
\* point of every hover-eligible overlay attached to the map is indexed.
C18_BadPointsSkipped ==
    RebuildDone =>
        /\ hoverIndex.built
        /\ \A o \in IndexedCands :
              /\ o.feature.type = "Point"
              /\ latLngToContainerPoint(o.latlng, view).finite
        /\ \A j \in 1..Len(geojsonLayers) :
              LET nm == geojsonLayers[j][1]
                  lyr == geojsonLayers[j][2]
                  gj == layerGj[lyr]
              IN  (Get(geojsonHoverable, nm) /\ lyr \in mapLayers) =>
                     \A i \in 1..Len(gj) :
                        (gj[i].type = "Point" /\ latLngToContainerPoint(gj[i].ll, view).finite) =>
                           \E o \in IndexedCands :
                              /\ o.feature.owner = lyr
                              /\ o.feature.idx = i
                              /\ o.latlng = gj[i].ll

\* C18 witness: after a rebuild, the point that follows a polygon and a
\* non-finite point in its overlay is indexed, and so are the points of the
\* other overlay
C18_Witness ==
    /\ RebuildDone
    /\ \E j \in 1..Len(geojsonLayers) :
          LET lyr == geojsonLayers[j][2]
          IN  /\ layerGj[lyr] = FcMixed
              /\ \E o \in IndexedCands : o.feature.owner = lyr /\ o.feature.idx = Len(FcMixed)
              /\ \E o \in IndexedCands : o.feature.owner # lyr

\* C19: a pass in which a detachment found the drawable undefined or already
\* absent still completes: every name outside the snapshot is dropped from
\* the three tables with its drawable off the map and the control, every
\* name that requires it is replaced by a new drawable attached to both, and
\* all names of the snapshot end up stored with their content and flag.
C19_DetachFailureSwallowed ==
    [][(last'.h = "sync" /\ last'.swallowed > 0) =>
          /\ \A n \in KeySet(geojsonLayers) \ DesiredNames :
                /\ OldDetached(n)
                /\ n \notin KeySet(geojsonLayers')
                /\ n \notin KeySet(geojsonData')
                /\ n \notin KeySet(geojsonHoverable')
          /\ \A n \in KeySet(geojsonLayers) \cap DesiredNames :
                Required(n) => (~SameDrawable(n) /\ OldDetached(n))
          /\ KeySet(geojsonLayers') = DesiredNames
          /\ \A n \in DesiredNames :
                /\ Get(geojsonLayers', n) \in mapLayers' \/ ~Required(n)
                /\ Get(geojsonLayers', n) \in controlLayers'
                /\ layerGj'[Get(geojsonLayers', n)] = DesiredContent(n)
                /\ Get(geojsonData', n) = JSONstringify(DesiredContent(n))
                /\ Get(geojsonHoverable', n) = DesiredFlag(n)]_vars

\* C19 witness: a pass without nested calls dropped a name whose drawable was
\* already off the map, and kept another name
C19_Witness ==
    /\ PassDone
    /\ last.swallowed > 0
    /\ last.reentered = 0
    /\ last.detaches > 0
    /\ last.creates = 0
    /\ Len(geojsonLayers) = 1

\* C20: handling a pointer move, a frame callback or a pointer leave changes
\* neither the three tables, the attached and registered overlays, the index,
\* the inputs nor the projection, and performs no rebuild: it changes only
\* the throttle fields, the hover marker and the notifications.
C20_HoverControllerReadOnly ==
    [][last'.h \in {"mousemove", "frame", "mouseout"} =>
          /\ UNCHANGED <<tableVars, hoverIndex>>
          /\ last'.rebuilds = 0
          /\ UNCHANGED <<dataVars, show_hover, view, viewChanging>>]_vars

\* C20 witness: a frame callback got a hit from an index that no longer
\* matches the tables and left it as it was
C20_Witness ==
    /\ QueryDone
    /\ last.hit
    /\ hover.onMap
    /\ IndexedCands # ExpectedCands

\* the candidates of the 3x3 neighbourhood of p in scan order: cells by row
\* dy = -1..1, within a row by column dx = -1..1, within a cell as inserted
RECURSIVE ScannedFrom(_, _)
ScannedFrom(p, j) ==
    IF j > 9 THEN <<>>
    ELSE LET dx == ((j - 1) % 3) - 1
             dy == ((j - 1) \div 3) - 1
             k == <<cellKeyFromPoint(p).cx + dx, cellKeyFromPoint(p).cy + dy>>
         IN  (IF k \in DOMAIN hoverIndex.cells THEN hoverIndex.cells[k] ELSE <<>>)
             \o ScannedFrom(p, j + 1)
Scanned(p) == ScannedFrom(p, 1)

\* positions in the scan whose candidate is at the minimum distance from p
Nearest(p) ==
    {i \in 1..Len(Scanned(p)) :
        \A j \in 1..Len(Scanned(p)) : Dist2(p, Scanned(p)[i]) <= Dist2(p, Scanned(p)[j])}

\* C21: the candidate selected by a hit is the one at the first position in
\* scan order among the scanned candidates at minimum distance; a later
\* candidate at the same distance never replaces it.
C21_FirstInScanOrderWins ==
    (QueryDone /\ last.hit) =>
        /\ Nearest(last.p) # {}
        /\ \E i \in Nearest(last.p) :
              /\ \A j \in Nearest(last.p) : i <= j
              /\ last.best = Scanned(last.p)[i]

\* C21 witness: a hit with two candidates at the same minimum distance that
\* lie in different cells
C21_Witness ==
    /\ QueryDone
    /\ last.hit
    /\ \E i \in Nearest(last.p), j \in Nearest(last.p) :
          /\ i < j
          /\ cellKeyFromPoint(Scanned(last.p)[i]).key # cellKeyFromPoint(Scanned(last.p)[j]).key

\* the label the properties props call for, piece by piece: entry e gives
\* its key, ': ' and its value, and ', ' separates consecutive entries
JoinedLabel(props) ==
    [i \in 1..(IF props = <<>> THEN 0 ELSE 4 * Len(props) - 1) |->
        LET e == ((i - 1) \div 4) + 1
            part == (i - 1) % 4
        IN  IF part = 0 THEN props[e][1]
            ELSE IF part = 1 THEN ": "
            ELSE IF part = 2 THEN props[e][2]
            ELSE ", "]

ExpectedLabel(f) ==
    IF f.type = "none" \/ f.properties = NullProperties THEN <<>>
    ELSE IF \E i \in 1..Len(f.properties) :
               f.properties[i][1] = "name" /\ f.properties[i][2] # ""
         THEN <<f.properties[CHOOSE i \in 1..Len(f.properties) :
                                f.properties[i][1] = "name"][2]>>
         ELSE JoinedLabel(f.properties)

\* C22: the label shown on a hit is the feature's name property when it is
\* truthy, else the 'key: value' rendering of all its properties joined by
\* ', ', else (no property map) the empty string.
C22_HoverLabel ==
    (QueryDone /\ last.hit) =>
        /\ hover.open
        /\ hover.tooltip = ExpectedLabel(last.detail)

\* C22 witness: the hit feature has a name property that is not truthy next
\* to another property, so that its label joins two entries
C22_Witness ==
    /\ QueryDone
    /\ last.hit
    /\ last.detail.properties # NullProperties
    /\ Len(last.detail.properties) = 2
    /\ \E i \in 1..2 : last.detail.properties[i] = <<"name", "">>
    /\ Len(hover.tooltip) = 7

\* C23: the pending flag is set exactly when one frame callback is
\* outstanding; under fair frame scheduling an accepted pointer move is
\* eventually followed by a query at the position of the latest stored move,
\* and a set pending flag is eventually cleared.
C23_ThrottleLive ==
    /\ [](mmPending <=> rafQueue = 1)
    /\ [](rafQueue \in {0, 1})
    /\ MoveAccepted ~>
          (/\ QueryDone
           /\ last.p.x = latLngToContainerPoint(mmLast.latlng, view).x
           /\ last.p.y = latLngToContainerPoint(mmLast.latlng, view).y)
    /\ mmPending ~> ~mmPending

\* C23 witness: the callback of an accepted move has run its query and the
\* throttle accepts again: a new move has scheduled the next callback
C23_Witness ==
    /\ MoveAccepted
    /\ ~last.coalesced
    /\ mmPending
    /\ rafQueue = 1
    /\ hover.onMap

\* C24 as stated: a frame callback that runs right after the pointer left
\* the map (it was pending when the pointer left, no move came since) leaves
\* the hover marker detached and emits no hover_layer notification.
C24_NoReshowAfterLeave ==
    [][(last.h = "mouseout" /\ last'.h = "frame") =>
          (~hover'.onMap /\ last'.notified = 0)]_vars

\* C25 as stated: with show_hover false and the show_hover script run, a
\* frame callback (scheduled before the flag was cleared) leaves the hover
\* marker detached and emits no hover_layer notification.
C25_HiddenWhileDisabled ==
    [][(last.h = "showHover" /\ ~show_hover /\ ~hover.onMap /\ last'.h = "frame") =>
          (~hover'.onMap /\ last'.notified = 0)]_vars

\* C26 as stated: every overlay drawable attached to the map or registered
\* in the layers control is the drawable stored in the table under its name.
C26_NoOrphanDrawables ==
    (mapLayers \cup controlLayers) \subseteq
        {geojsonLayers[i][2] : i \in 1..Len(geojsonLayers)}

\* no viewport change is under way: every pan and zoom has had its end event
Quiescent == hoverIndex.built /\ viewChanging = "none"

\* C27: whenever no handler runs and no viewport change is under way, the
\* index holds exactly the candidates a rebuild from the current tables,
\* visibility and projection gives, so every candidate belongs to an overlay
\* that is stored, hover-eligible and attached to the map.
C27_IndexFreshAtQuiescence ==
    Quiescent =>
        /\ IndexedCands = ExpectedCands
        /\ SumLen(hoverIndex.cells, DOMAIN hoverIndex.cells) = Cardinality(ExpectedCands)
        /\ \A o \in IndexedCands :
              \E j \in 1..Len(geojsonLayers) :
                 /\ geojsonLayers[j][2] = o.feature.owner
                 /\ Get(geojsonHoverable, geojsonLayers[j][1])
                 /\ o.feature.owner \in mapLayers

\* C27 witness: at quiescence under another projection than the initial
\* one, one hover-eligible overlay is toggled off, another overlay is stored
\* not eligible, and the index is empty
C27_Witness ==
    /\ Quiescent
    /\ view.zoom = 2
    /\ Len(geojsonLayers) = 2
    /\ \E j \in 1..2 :
          /\ Get(geojsonHoverable, geojsonLayers[j][1])
          /\ geojsonLayers[j][2] \notin mapLayers
    /\ \E j \in 1..2 :
          /\ ~Get(geojsonHoverable, geojsonLayers[j][1])
          /\ geojsonLayers[j][2] \in mapLayers
    /\ IndexedCands = {}

\* the drawable stored under n is off the map when the pass of the step
\* starts: the user unticks it in the step, or it was off the map before the
\* step and the user does not tick it
ToggledOff(n) ==
    /\ Has(geojsonLayers, n)
    /\ IF last'.toggled = Get(geojsonLayers, n)
       THEN Get(geojsonLayers, n) \in mapLayers
       ELSE Get(geojsonLayers, n) \notin mapLayers

\* C28: across a pass, a toggled-off overlay whose content and eligibility
\* are unchanged keeps its identical drawable, stays off the map and has no
\* candidate in the index; one whose content or eligibility changed gets a
\* new drawable that is attached to the map.
C28_VisibilityAcrossPass ==
    [][last'.h = "sync" =>
          \A n \in DesiredNames :
              ToggledOff(n) =>
                 IF Required(n)
                 THEN /\ ~SameDrawable(n)
                      /\ Get(geojsonLayers', n) \in mapLayers'
                      /\ Get(geojsonLayers', n) \in controlLayers'
                 ELSE /\ SameDrawable(n)
                      /\ Get(geojsonLayers', n) \notin mapLayers'
                      /\ Get(geojsonLayers', n) \in controlLayers'
                      /\ \A o \in IndexedCands' :
                            o.feature.owner # Get(geojsonLayers', n)]_vars

\* C28 witness: a pass that created a drawable for one name finished while
\* the hover-eligible overlay of the other name, not ticked in that step, is
\* stored off the map
C28_Witness ==
    /\ PassDone
    /\ last.toggled = Undefined
    /\ last.creates > 0
    /\ Len(geojsonLayers) = 2
    /\ \E j \in 1..2 :
          /\ Get(geojsonHoverable, geojsonLayers[j][1])
          /\ geojsonLayers[j][2] \notin mapLayers
          /\ geojsonLayers[j][2] \in controlLayers

====
